---- MODULE Spec2Model ----
(***************************************************************************)
(* A model of tackboon/s3-file-server: the repeating-key (XOR) stream, the *)
(* AES counter-mode stream, and the two HTTP handlers that serve decrypted *)
(* byte ranges of objects held in a blob store.                            *)
(*                                                                         *)
(* Three specifications share the module:                                  *)
(*   SpecXor  xorWriter / xorReader on byte sequences                      *)
(*   SpecCTR  ctrWriter / ctrReader on byte sequences                      *)
(*   Spec     ServeXORFile / ServeCTRFile against a store that may change  *)
(***************************************************************************)
EXTENDS Integers, Sequences, FiniteSets, TLC

VARIABLES
    \* ---- repeating-key streams (SpecXor)
    xkey,       \* the key handed to NewXorWriter / NewXorReader
    xplain,     \* the plaintext the caller writes
    xoff,       \* the offset reader A is constructed at
    xw,         \* the xorWriter
    xsink,      \* the bytes the underlying writer has accepted
    xlast,      \* the last Write call: the caller's buffer before and after
    xrA,        \* xorReader constructed at xoff over xsink[xoff..]
    xrB,        \* xorReader constructed at 0 over xsink[0..]
    \* ---- counter-mode streams (SpecCTR)
    cblock,     \* the cipher.Block handed to the constructors
    crand,      \* the 16 bytes rand.Reader yields in NewCTRWriter
    cplain,     \* the plaintext the caller writes
    civ,        \* the IV NewCTRWriter returned to its caller (<<>>: none)
    coff,       \* the offset reader A is constructed at
    cbase,      \* how many runs of 2^32 blocks were written ahead of cplain
    cw,         \* the ctrWriter
    csink,      \* the bytes the underlying writer has accepted
    clast,      \* the last Write call: the caller's buffer before and after
    crA,        \* ctrReader constructed at coff over the ciphertext from coff on
    crB,        \* ctrReader constructed at 0 over the whole ciphertext
    \* ---- the file server (Spec)
    srv,        \* the HTTPFileServer: [xorKey, block]
    store,      \* the blob store: per object key, the version held (0: none)
    nrep,       \* how many times a stored object has been replaced
    req,        \* per request: [route, range, ims, ius], the request as sent
    h,          \* per request: the handler's position and local variables
    resp,       \* per request: what has been written to the ResponseWriter
    calls       \* per request: the store calls made, oldest first

xvars == <<xkey, xplain, xoff, xw, xsink, xlast, xrA, xrB>>

cvars == <<cblock, crand, cplain, civ, coff, cbase, cw, csink, clast, crA, crB>>

hvars == <<srv, store, nrep, req, h, resp, calls>>

vars == <<xvars, cvars, hvars>>

(***************************************************************************)
(* Bounds of the model.                                                    *)
(***************************************************************************)
\* longest plaintext written through a stream writer
PlainLen == 6
\* largest number of bytes one Read or Write call moves
MaxChunk == 3
\* how many times the stored object may be replaced while a request runs
MaxReplace == 1

(***************************************************************************)
(* Bytes.                                                                  *)
(***************************************************************************)
RECURSIVE BitXor(_, _, _)
BitXor(a, b, n) ==
    IF n = 0 THEN 0
    ELSE (((a % 2) + (b % 2)) % 2) + 2 * BitXor(a \div 2, b \div 2, n - 1)

\* Go's ^ on two bytes
Xor(a, b) == BitXor(a, b, 8)

Min(a, b) == IF a < b THEN a ELSE b

\* a test pattern of n bytes
Pattern(n, seed) == [i \in 1..n |-> (i * 53 + seed) % 256]

(***************************************************************************)
(* xorReader / xorWriter (src/unnamed/part_000).                           *)
(***************************************************************************)
XorKeys == { <<>>, <<165>>, <<90, 60, 255>> }

XorPlaintexts == { Pattern(n, 11) : n \in 0..PlainLen }

NoStream == [st |-> "none", key |-> <<>>, offset |-> 0, pos |-> 0, out |-> <<>>, calls |-> 0]

\* no ctrReader / ctrWriter constructed yet
NoCtr == [st |-> "none", stream |-> [ctr |-> <<>>, used |-> 0], iv |-> <<>>,
          pos |-> 0, out |-> <<>>, calls |-> 0]

\* the loop of Read and of Write: p[i] ^= key[(offset+i) % keyLen]
XorTransformNoSeek(key, offset, p) ==
    [i \in 1..Len(p) |-> Xor(p[i], key[((i - 1) % Len(key)) + 1])]

XorTransform(key, offset, p) ==
    [i \in 1..Len(p) |-> Xor(p[i], key[((offset + i - 1) % Len(key)) + 1])]

\* NewXorReader(reader, key, offset): no validation of the key
NewXorReaderOp(key, offset) ==
    [st |-> "open", key |-> key, offset |-> offset, pos |-> 0, out |-> <<>>, calls |-> 0]

\* NewXorWriter(writer, key): no validation of the key, offset starts at 0
NewXorWriterOp(key) ==
    [st |-> "open", key |-> key, offset |-> 0, pos |-> 0, out |-> <<>>, calls |-> 0]

\* xorReader.Read when the underlying reader returned the bytes `got`.
\* With an empty key and n > 0 the index expression divides by zero: a panic.
xorReader_Read(r, got) ==
    IF Len(got) > 0 /\ Len(r.key) = 0
    THEN [r EXCEPT !.st = "panic", !.calls = Min(@ + 1, 2)]
    ELSE [r EXCEPT !.out = @ \o XorTransform(r.key, r.offset, got),
                   !.offset = @ + Len(got),
                   !.pos = @ + Len(got),
                   !.calls = Min(@ + 1, 2)]

xorWriter_Write_NoAdvance(w, p) ==
    IF Len(p) > 0 /\ Len(w.key) = 0
    THEN [w EXCEPT !.st = "panic", !.calls = Min(@ + 1, 2)]
    ELSE [w EXCEPT !.out = XorTransform(w.key, w.offset, p),
                   !.pos = @ + Len(p),
                   !.calls = Min(@ + 1, 2)]

\* xorWriter.Write up to the call of the underlying writer: p is transformed
\* in place (out is the caller's buffer after the call) and the offset moves
\* by len(p) whatever the underlying writer accepts.
xorWriter_Write(w, p) ==
    IF Len(p) > 0 /\ Len(w.key) = 0
    THEN [w EXCEPT !.st = "panic", !.calls = Min(@ + 1, 2)]
    ELSE [w EXCEPT !.out = XorTransform(w.key, w.offset, p),
                   !.offset = @ + Len(p),
                   !.pos = @ + Len(p),
                   !.calls = Min(@ + 1, 2)]

(***************************************************************************)
(* Strings, numbers and dates as the handlers read and write them          *)
(* (src/main.go, 87-126 and 197-250).  A string is a sequence of its       *)
(* characters; s[i] is written SubSeq(s, i, i).                            *)
(***************************************************************************)
Digits == "0123456789"

IsDigit(c) == \E i \in 1..10 : SubSeq(Digits, i, i) = c

DigitVal(c) == (CHOOSE i \in 1..10 : SubSeq(Digits, i, i) = c) - 1

AllDigits(s) == \A i \in 1..Len(s) : IsDigit(SubSeq(s, i, i))

RECURSIVE DecVal(_)
DecVal(s) ==
    IF Len(s) = 0 THEN 0
    ELSE 10 * DecVal(SubSeq(s, 1, Len(s) - 1)) + DigitVal(SubSeq(s, Len(s), Len(s)))

\* a digit string without its leading zeros
RECURSIVE TrimZeros(_)
TrimZeros(ds) ==
    IF Len(ds) > 1 /\ SubSeq(ds, 1, 1) = "0" THEN TrimZeros(SubSeq(ds, 2, Len(ds))) ELSE ds

\* a > b as numbers, for two digit strings without leading zeros
RECURSIVE DigitsGreater(_, _)
DigitsGreater(a, b) ==
    IF Len(a) # Len(b) THEN Len(a) > Len(b)
    ELSE IF Len(a) = 0 THEN FALSE
    ELSE IF SubSeq(a, 1, 1) # SubSeq(b, 1, 1)
    THEN DigitVal(SubSeq(a, 1, 1)) > DigitVal(SubSeq(b, 1, 1))
    ELSE DigitsGreater(SubSeq(a, 2, Len(a)), SubSeq(b, 2, Len(b)))

\* how many digits s starts with
RECURSIVE DigitRun(_)
DigitRun(s) ==
    IF Len(s) > 0 /\ IsDigit(SubSeq(s, 1, 1)) THEN 1 + DigitRun(SubSeq(s, 2, Len(s))) ELSE 0

\* strconv.ParseUint(ds, 10, 64) returns its range error: it reads ds byte by
\* byte, and stops at the digit with which the number passes 2^64 - 1,
\* before it reads what follows; a byte that is no digit, read before, is a
\* syntax error
UintRangeError(ds) ==
    DigitsGreater(TrimZeros(SubSeq(ds, 1, DigitRun(ds))), "18446744073709551615")

\* strconv.ParseInt(s, 10, 64) with the error dropped (start, _ = ...): the
\* value; 0 when s is not a signed decimal number (a syntax error); the
\* nearest int64 (2^63 - 1, or -2^63) when ParseUint returns its range error
\* or the number it returns is out of the range of int64
ParseInt(s) ==
    LET signed == Len(s) > 0 /\ SubSeq(s, 1, 1) \in {"+", "-"}
        neg == signed /\ SubSeq(s, 1, 1) = "-"
        ds == IF signed THEN SubSeq(s, 2, Len(s)) ELSE s
    IN IF Len(ds) = 0 THEN 0
       ELSE IF UintRangeError(ds) THEN (IF neg THEN 0 - 2^63 ELSE 2^63 - 1)
       ELSE IF ~AllDigits(ds) THEN 0
       ELSE IF neg
       THEN IF DigitsGreater(TrimZeros(ds), "9223372036854775808")
            THEN 0 - 2^63 ELSE 0 - DecVal(ds)
       ELSE IF DigitsGreater(TrimZeros(ds), "9223372036854775807")
            THEN 2^63 - 1 ELSE DecVal(ds)

RECURSIVE NatToStr(_)
NatToStr(n) ==
    IF n < 10 THEN SubSeq(Digits, n + 1, n + 1)
    ELSE NatToStr(n \div 10) \o SubSeq(Digits, (n % 10) + 1, (n % 10) + 1)

\* fmt.Sprintf("%d", n)
Itoa(n) == IF n < 0 THEN "-" \o NatToStr(0 - n) ELSE NatToStr(n)

HasPrefix(s, prefix) ==
    Len(s) >= Len(prefix) /\ SubSeq(s, 1, Len(prefix)) = prefix

\* strings.TrimPrefix(s, prefix)
TrimPrefix(s, prefix) ==
    IF HasPrefix(s, prefix) THEN SubSeq(s, Len(prefix) + 1, Len(s)) ELSE s

\* strings.Split(s, sep) for a one-character sep
RECURSIVE Split(_, _)
Split(s, sep) ==
    IF \E i \in 1..Len(s) : SubSeq(s, i, i) = sep
    THEN LET i == CHOOSE j \in 1..Len(s) :
                      /\ SubSeq(s, j, j) = sep
                      /\ \A k \in 1..(j - 1) : SubSeq(s, k, k) # sep
         IN <<SubSeq(s, 1, i - 1)>> \o Split(SubSeq(s, i + 1, Len(s)), sep)
    ELSE <<s>>

\* the characters of the bytes 32 (space) to 95 (underscore) and of the bytes
\* 97 (a) to 126 (tilde)
AsciiLow == " !\"#$%&'()*+,-./0123456789:;<=>?@ABCDEFGHIJKLMNOPQRSTUVWXYZ[\\]^_"

AsciiHigh == "abcdefghijklmnopqrstuvwxyz{|}~"

\* the byte of a character: the newline, or one of the above
ByteOf(c) ==
    IF c = "\n" THEN 10
    ELSE IF \E i \in 1..Len(AsciiLow) : SubSeq(AsciiLow, i, i) = c
    THEN 31 + (CHOOSE i \in 1..Len(AsciiLow) : SubSeq(AsciiLow, i, i) = c)
    ELSE 96 + (CHOOSE i \in 1..Len(AsciiHigh) : SubSeq(AsciiHigh, i, i) = c)

\* []byte(s)
Bytes(s) == [i \in 1..Len(s) |-> ByteOf(SubSeq(s, i, i))]

\* fmt.Sprintf("bytes=%d-%d", a, b)
FormatRange(a, b) == "bytes=" \o Itoa(a) \o "-" \o Itoa(b)

\* fmt.Sprintf("bytes %d-%d/%d", start, end, size)
FormatContentRange(start, end, size) ==
    "bytes " \o Itoa(start) \o "-" \o Itoa(end) \o "/" \o Itoa(size)

(***************************************************************************)
(* time.Parse(http.TimeFormat, s), http.TimeFormat being                   *)
(* "Mon, 02 Jan 2006 15:04:05 GMT".  A time is [day, sec, nsec]: the day   *)
(* number (days since 1970-01-01), the second of the day and the           *)
(* nanosecond of the second.                                               *)
(***************************************************************************)
UpperCase == "ABCDEFGHIJKLMNOPQRSTUVWXYZ"

LowerCase == "abcdefghijklmnopqrstuvwxyz"

FoldChar(c) ==
    IF \E i \in 1..26 : SubSeq(UpperCase, i, i) = c
    THEN LET i == CHOOSE j \in 1..26 : SubSeq(UpperCase, j, j) = c
         IN SubSeq(LowerCase, i, i)
    ELSE c

RECURSIVE Fold(_)
Fold(s) == IF Len(s) = 0 THEN "" ELSE FoldChar(SubSeq(s, 1, 1)) \o Fold(SubSeq(s, 2, Len(s)))

ShortDayNames == <<"sun", "mon", "tue", "wed", "thu", "fri", "sat">>

ShortMonthNames ==
    <<"jan", "feb", "mar", "apr", "may", "jun", "jul", "aug", "sep", "oct", "nov", "dec">>

\* lookup(tab, val): the index of the name val starts with (case-insensitive), or 0
Lookup(tab, val) ==
    IF Len(val) >= 3 /\ \E i \in 1..Len(tab) : tab[i] = Fold(SubSeq(val, 1, 3))
    THEN CHOOSE i \in 1..Len(tab) : tab[i] = Fold(SubSeq(val, 1, 3))
    ELSE 0

RECURSIVE CutSpace(_)
CutSpace(s) ==
    IF Len(s) > 0 /\ SubSeq(s, 1, 1) = " " THEN CutSpace(SubSeq(s, 2, Len(s))) ELSE s

\* skip(value, prefix): value with the literal prefix removed, a space of the
\* prefix standing for any run of spaces; [ok, rest]
RECURSIVE Skip(_, _)
Skip(value, prefix) ==
    IF Len(prefix) = 0 THEN [ok |-> TRUE, rest |-> value]
    ELSE IF SubSeq(prefix, 1, 1) = " "
    THEN IF Len(value) > 0 /\ SubSeq(value, 1, 1) # " "
         THEN [ok |-> FALSE, rest |-> value]
         ELSE Skip(CutSpace(value), CutSpace(prefix))
    ELSE IF Len(value) = 0 \/ SubSeq(value, 1, 1) # SubSeq(prefix, 1, 1)
    THEN [ok |-> FALSE, rest |-> value]
    ELSE Skip(SubSeq(value, 2, Len(value)), SubSeq(prefix, 2, Len(prefix)))

\* getnum(s, fixed): one or two leading digits (two when fixed); [ok, n, rest]
GetNum(s, fixed) ==
    IF Len(s) = 0 \/ ~IsDigit(SubSeq(s, 1, 1)) THEN [ok |-> FALSE, n |-> 0, rest |-> s]
    ELSE IF Len(s) < 2 \/ ~IsDigit(SubSeq(s, 2, 2))
    THEN IF fixed THEN [ok |-> FALSE, n |-> 0, rest |-> s]
         ELSE [ok |-> TRUE, n |-> DigitVal(SubSeq(s, 1, 1)), rest |-> SubSeq(s, 2, Len(s))]
    ELSE [ok |-> TRUE, n |-> DecVal(SubSeq(s, 1, 2)), rest |-> SubSeq(s, 3, Len(s))]

IsLeap(y) == (y % 4 = 0) /\ ((y % 100 # 0) \/ (y % 400 = 0))

DaysIn(m, y) ==
    IF m = 2 THEN (IF IsLeap(y) THEN 29 ELSE 28)
    ELSE IF m \in {4, 6, 9, 11} THEN 30 ELSE 31

\* the day number of y-m-d, days since 1970-01-01
DayNumber(y, m, d) ==
    LET yy == IF m <= 2 THEN y - 1 ELSE y
        era == yy \div 400
        yoe == yy - era * 400
        mp == (m + 9) % 12
        doy == (153 * mp + 2) \div 5 + d - 1
        doe == yoe * 365 + yoe \div 4 - yoe \div 100 + doy
    IN era * 146097 + doe - 719468

Date(y, m, d, hh, mm, ss, ns) ==
    [day |-> DayNumber(y, m, d), sec |-> hh * 3600 + mm * 60 + ss, nsec |-> ns]

NoTime == [day |-> 0, sec |-> 0, nsec |-> 0]

\* commaOrPeriod(b)
CommaOrPeriod(c) == c \in {".", ","}

\* parseNanoseconds(value, nbytes): value[0] is the comma or period, the
\* digits value[1:nbytes] are a fraction of a second, of which nine count
ParseNanoseconds(value, nbytes) ==
    LET nb == Min(nbytes, 10)
    IN DecVal(SubSeq(value, 2, nb)) * 10 ^ (10 - nb)

\* the seconds field is followed by a fractional second, which the layout
\* does not have: [nsec, rest]
FractionalSecond(value) ==
    IF Len(value) >= 2 /\ CommaOrPeriod(SubSeq(value, 1, 1)) /\ IsDigit(SubSeq(value, 2, 2))
    THEN LET n == 1 + DigitRun(SubSeq(value, 2, Len(value)))
         IN [nsec |-> ParseNanoseconds(value, n), rest |-> SubSeq(value, n + 1, Len(value))]
    ELSE [nsec |-> 0, rest |-> value]

\* time.Parse(http.TimeFormat, s): [ok, t]
ParseHTTPTime(s) ==
    LET bad == [ok |-> FALSE, t |-> NoTime]
        wd == Lookup(ShortDayNames, s)
        s1 == Skip(SubSeq(s, 4, Len(s)), ", ")
        dd == GetNum(s1.rest, TRUE)
        s2 == Skip(dd.rest, " ")
        mo == Lookup(ShortMonthNames, s2.rest)
        s3 == Skip(SubSeq(s2.rest, 4, Len(s2.rest)), " ")
        ys == SubSeq(s3.rest, 1, 4)
        s4 == Skip(SubSeq(s3.rest, 5, Len(s3.rest)), " ")
        hh == GetNum(s4.rest, FALSE)
        s5 == Skip(hh.rest, ":")
        mi == GetNum(s5.rest, TRUE)
        s6 == Skip(mi.rest, ":")
        ss == GetNum(s6.rest, TRUE)
        fs == FractionalSecond(ss.rest)
        s7 == Skip(fs.rest, " GMT")
    IN IF wd = 0 \/ ~s1.ok \/ ~dd.ok \/ ~s2.ok \/ mo = 0 \/ ~s3.ok THEN bad
       ELSE IF Len(s3.rest) < 4 \/ ~AllDigits(ys) \/ ~s4.ok THEN bad
       ELSE IF ~hh.ok \/ hh.n >= 24 \/ ~s5.ok THEN bad
       ELSE IF ~mi.ok \/ mi.n >= 60 \/ ~s6.ok THEN bad
       ELSE IF ~ss.ok \/ ss.n >= 60 \/ ~s7.ok \/ Len(s7.rest) > 0 THEN bad
       ELSE IF dd.n < 1 \/ dd.n > DaysIn(mo, DecVal(ys)) THEN bad
       ELSE [ok |-> TRUE, t |-> Date(DecVal(ys), mo, dd.n, hh.n, mi.n, ss.n, fs.nsec)]

\* t.After(u), t.Before(u)
After(t, u) ==
    \/ t.day > u.day
    \/ t.day = u.day /\ t.sec > u.sec
    \/ t.day = u.day /\ t.sec = u.sec /\ t.nsec > u.nsec

Before(t, u) == After(u, t)

(***************************************************************************)
(* ctrReader / ctrWriter (src/main.go, 375-448, and the NewCTRWriter of    *)
(* 352-366).                                                               *)
(***************************************************************************)
\* aes.BlockSize
BlockSize == 16

\* The cipher.Block handed to the constructors is a parameter of the code.
\* The model's blocks are keyed functions on 16-byte blocks in which every
\* output byte depends on every input byte, as with AES.
Blocks == { <<3, 141, 77>> }

RECURSIVE WeightedSum(_, _)
WeightedSum(src, i) ==
    IF i = 0 THEN 0 ELSE (i * src[i] + WeightedSum(src, i - 1)) % 256

\* block.Encrypt(dst, src)
BlockEncrypt(block, src) ==
    LET sum == WeightedSum(src, BlockSize)
    IN [j \in 1..BlockSize |->
           (sum * j + src[j] + block[((j - 1) % Len(block)) + 1]) % 256]

\* Add c to the big-endian number held in bytes lo..i of a byte sequence,
\* dropping the carry out of byte lo.
RECURSIVE AddBE(_, _, _, _)
AddBE(bytes, i, lo, c) ==
    IF i < lo \/ c = 0 THEN bytes
    ELSE AddBE([bytes EXCEPT ![i] = (@ + c) % 256], i - 1, lo, (bytes[i] + c) \div 256)

\* cipher.NewCTR(block, iv): the register starts at iv, nothing consumed
NewCTR(iv) == [ctr |-> iv, used |-> 0]

\* the stream's step to the next block: the whole register is incremented,
\* the carry running through all 16 bytes
CtrIncrement(ctr) == AddBE(ctr, BlockSize, 1, 1)

\* stream.XORKeyStream(dst, src): [stream |-> the stream after, dst |-> dst]
RECURSIVE XORKeyStream(_, _, _)
XORKeyStream(block, stream, src) ==
    IF Len(src) = 0 THEN [stream |-> stream, dst |-> <<>>]
    ELSE LET ks == BlockEncrypt(block, stream.ctr)[stream.used + 1]
             nxt == IF stream.used + 1 = BlockSize
                    THEN [ctr |-> CtrIncrement(stream.ctr), used |-> 0]
                    ELSE [stream EXCEPT !.used = @ + 1]
             rest == XORKeyStream(block, nxt, Tail(src))
         IN [stream |-> rest.stream, dst |-> <<Xor(Head(src), ks)>> \o rest.dst]

SeekCounter_Carry(iv, offset) ==
    AddBE(iv, Len(iv), 1, offset \div BlockSize)

\* counter := Uint64(iv[len(iv)-8:]) + uint64(offset / aes.BlockSize), put
\* back into iv[len(iv)-8:]
SeekCounter(iv, offset) ==
    AddBE(iv, Len(iv), Len(iv) - 7, offset \div BlockSize)

NewCTRReader_NoSkip(block, iv, offset) ==
    [st |-> "open", stream |-> NewCTR(SeekCounter(iv, offset)),
     iv |-> SeekCounter(iv, offset), pos |-> 0, out |-> <<>>, calls |-> 0]

\* The same for an int64 offset of far * 2^36 + offset, beyond the integers
\* of the model: offset / aes.BlockSize is far * 2^32 + offset \div 16, and
\* far * 2^32 is added at the fifth byte from the end, the carry dropped out
\* of the low 64 bits
SeekCounterFar(iv, far, offset) ==
    AddBE(SeekCounter(iv, offset), Len(iv) - 4, Len(iv) - 7, far)

\* NewCTRReader(reader, block, iv, far * 2^36 + offset); iv is the caller's
\* slice after the call (the counter is written back into it)
NewCTRReaderFar(block, iv, far, offset) ==
    LET iv2 == SeekCounterFar(iv, far, offset)
        skip == XORKeyStream(block, NewCTR(iv2), [i \in 1..(offset % BlockSize) |-> 0])
    IN [st |-> "open", stream |-> skip.stream, iv |-> iv2,
        pos |-> 0, out |-> <<>>, calls |-> 0]

\* NewCTRReader(reader, block, iv, offset)
NewCTRReaderOp(block, iv, offset) == NewCTRReaderFar(block, iv, 0, offset)

\* ctrWriter.Write calls that take 2^36 bytes in all, each accepted in full:
\* the stream steps through 2^32 blocks, the register incremented as a whole
\* each time
ctrWriter_WriteFar(w) ==
    [w EXCEPT !.stream.ctr = AddBE(@, BlockSize - 4, 1, 1),
              !.calls = Min(@ + 1, 2)]

\* ctrReader.Read when the underlying reader returned the bytes `got`
ctrReader_Read(block, r, got) ==
    LET x == XORKeyStream(block, r.stream, got)
    IN [r EXCEPT !.stream = x.stream,
                 !.out = @ \o x.dst,
                 !.pos = @ + Len(got),
                 !.calls = Min(@ + 1, 2)]

\* NewCTRWriter of lines 352-366 up to the write of the IV: the 16 random
\* bytes are the IV as they are; iv is what is written first to the
\* underlying writer and what is returned beside the writer
NewCTRWriterRawOp(block, rand) ==
    [st |-> "open", stream |-> NewCTR(rand), iv |-> rand,
     pos |-> 0, out |-> <<>>, calls |-> 0]

\* NewCTRWriter of lines 423-441 up to the write of the IV: the last 4 bytes
\* of the random IV are set to zero; iv is what is written first to the
\* underlying writer
NewCTRWriterOp(block, rand) ==
    LET iv == [i \in 1..BlockSize |-> IF i > BlockSize - 4 THEN 0 ELSE rand[i]]
    IN [st |-> "open", stream |-> NewCTR(iv), iv |-> iv,
        pos |-> 0, out |-> <<>>, calls |-> 0]

\* ctrWriter.Write up to the call of the underlying writer: out is the fresh
\* buffer `cipher`, p is left as it was
ctrWriter_Write(block, w, p) ==
    LET x == XORKeyStream(block, w.stream, p)
    IN [w EXCEPT !.stream = x.stream,
                 !.out = x.dst,
                 !.pos = @ + Len(p),
                 !.calls = Min(@ + 1, 2)]

(***************************************************************************)
(* The blob store behind S3Client (src/main.go, 483-500): HeadObject and   *)
(* GetRangeObject on the version of the object held when the call is made. *)
(***************************************************************************)
Routes == {"xor", "ctr"}

Reqs == {1, 2}

Versions == 1..6

T0 == Date(2023, 11, 14, 22, 13, 20, 0)

T1 == Date(2023, 11, 14, 22, 13, 21, 0)

\* the logical content of each version
Plain(v) ==
    CASE v = 1 -> Pattern(20, 40)
      [] v = 2 -> Pattern(10, 90)
      [] v = 3 -> Pattern(1, 5)
      [] v = 4 -> <<>>
      [] v = 5 -> Pattern(20, 60)
      [] v = 6 -> Pattern(20, 40)

\* its last-modified time
LastModified(v) == IF v \in {2, 5} THEN T1 ELSE T0

\* its content type
ContentTypeOf(v) == "application/x-v" \o Itoa(v)

\* the IV stored in front of the counter-mode ciphertext: versions 1 to 4
\* and 6 written by the NewCTRWriter of lines 423-441 (last 4 bytes zero),
\* version 5 by the one of lines 352-366, which keeps all 16 random bytes,
\* its low 64 bits at their maximum
IVOf(v) ==
    CASE v = 2 -> [i \in 1..BlockSize |-> IF i > BlockSize - 4 THEN 0 ELSE 255]
      [] v = 5 -> [i \in 1..BlockSize |-> IF i <= 8 THEN i ELSE 255]
      [] OTHER -> [i \in 1..BlockSize |-> IF i > BlockSize - 4 THEN 0 ELSE (i * 53 + 7) % 256]

\* the bytes stored under the object key of a route; version 6 is cut off
\* after 5 bytes
StoredData(key, v) ==
    LET full == IF key = "ctr"
                THEN IVOf(v) \o XORKeyStream(srv.block, NewCTR(IVOf(v)), Plain(v)).dst
                ELSE IF Len(srv.xorKey) = 0 THEN Plain(v)
                ELSE XorTransform(srv.xorKey, 0, Plain(v))
    IN IF v = 6 THEN SubSeq(full, 1, 5) ELSE full

\* S3Client.HeadObject; fail: the call fails for a reason other than absence
HeadObject(key, fail) ==
    IF fail THEN [err |-> "Error", size |-> 0, lm |-> NoTime, ctype |-> ""]
    ELSE IF store[key] = 0 THEN [err |-> "NotFound", size |-> 0, lm |-> NoTime, ctype |-> ""]
    ELSE [err |-> "", size |-> Len(StoredData(key, store[key])),
          lm |-> LastModified(store[key]), ctype |-> ContentTypeOf(store[key])]

\* S3Client.GetRangeObject(ctx, key, "bytes=a-b"): the bytes a..b of the
\* object, b cut to its last byte; an error when the object is absent or
\* starts no byte at a
GetRangeObject(key, requestedRange, fail) ==
    LET parts == Split(TrimPrefix(requestedRange, "bytes="), "-")
        a == ParseInt(parts[1])
        b == ParseInt(parts[2])
        data == StoredData(key, store[key])
        bad == [err |-> "Error", body |-> <<>>, lm |-> NoTime, etag |-> 0]
    IN IF fail \/ store[key] = 0 THEN bad
       ELSE IF a >= Len(data) THEN bad
       ELSE [err |-> "", body |-> SubSeq(data, a + 1, Min(b, Len(data) - 1) + 1),
             lm |-> LastModified(store[key]), etag |-> store[key]]

(***************************************************************************)
(* HTTPFileServer.ServeXORFile and ServeCTRFile (src/main.go, 69-303).     *)
(***************************************************************************)
RangeHeaders ==
    {"", "bytes=10-30", "bytes=30-10", "bytes=5-5", "bytes=0-20", "bytes=17-",
     "bytes=-5", "bytes=abc"}

DateHeaders ==
    {"", "Tue, 14 Nov 2023 22:13:20 GMT", "Tue, 14 Nov 2023 22:13:21 GMT",
     "Tue, 14 Nov 2023 22:13:20.5 GMT", "Tuesday, 14-Nov-23 22:13:20 GMT"}

ServerKeys == { <<90, 60, 255>>, <<>> }

NoReq == [route |-> "none", range |-> "", ims |-> "", ius |-> ""]

\* the response: the status and how often it was written, the headers set
\* (Accept-Ranges, Content-Type, X-Content-Type-Options, Content-Length, ETag,
\* Last-Modified, Content-Range) and the body bytes written
NoResp ==
    [status |-> 0, writes |-> 0, acceptRanges |-> "", ctype |-> "", xcto |-> "",
     clen |-> "", etag |-> 0, lastModified |-> NoTime, crange |-> "", body |-> <<>>]

Locals(pc) ==
    [pc |-> pc, fileSize |-> 0, headLM |-> NoTime, ctype |-> "", iv |-> <<>>,
     start |-> 0, end |-> 0, isPartial |-> FALSE, requestedRange |-> "",
     src |-> <<>>, rd |-> NoStream, err |-> ""]

\* w.WriteHeader(code) and return; writes counts the calls of WriteHeader
WriteHeader(r, code) == [resp EXCEPT ![r].status = code, ![r].writes = @ + 1]

\* http.Error(w, msg, code) and return: Content-Type and
\* X-Content-Type-Options are set, the status is written, and the message
\* and a newline are written to the body (fmt.Fprintln)
HttpError(r, msg, code) ==
    [resp EXCEPT ![r].ctype = "text/plain; charset=utf-8",
                 ![r].xcto = "nosniff",
                 ![r].status = code,
                 ![r].writes = @ + 1,
                 ![r].body = @ \o Bytes(msg \o "\n")]

Finish(r) == [h EXCEPT ![r].pc = "done"]

\* the log of store calls: the operation, the range asked for, the version
\* of the object the store held, and whether the call succeeded
Called(r, op, rng, key, err) ==
    [calls EXCEPT ![r] = Append(@, [op |-> op, range |-> rng, ver |-> store[key],
                                    ok |-> (err = "")])]

\* lines 101-121: start, end and isPartial from the Range header; end is
\* reset when it is 0 or greater than fileSize
XORRange_Clamped(hdr, fileSize) ==
    LET parts == Split(TrimPrefix(hdr, "bytes="), "-")
        s0 == ParseInt(parts[1])
        e0 == ParseInt(parts[2])
    IN IF hdr = "" THEN [start |-> 0, end |-> fileSize - 1, isPartial |-> FALSE]
       ELSE IF Len(parts) # 2 THEN [start |-> 0, end |-> fileSize - 1, isPartial |-> TRUE]
       ELSE [start |-> IF s0 < 0 THEN 0 ELSE s0,
             end |-> IF e0 = 0 \/ e0 >= fileSize THEN fileSize - 1 ELSE e0,
             isPartial |-> TRUE]

XORRange(hdr, fileSize) ==
    LET parts == Split(TrimPrefix(hdr, "bytes="), "-")
        s0 == ParseInt(parts[1])
        e0 == ParseInt(parts[2])
    IN IF hdr = "" THEN [start |-> 0, end |-> fileSize - 1, isPartial |-> FALSE]
       ELSE IF Len(parts) # 2 THEN [start |-> 0, end |-> fileSize - 1, isPartial |-> TRUE]
       ELSE [start |-> IF s0 < 0 THEN 0 ELSE s0,
             end |-> IF e0 = 0 \/ e0 > fileSize THEN fileSize - 1 ELSE e0,
             isPartial |-> TRUE]

CTRRange_NoClamp(hdr, realFileSize) ==
    LET parts == Split(TrimPrefix(hdr, "bytes="), "-")
        s0 == ParseInt(parts[1])
        e0 == ParseInt(parts[2])
    IN IF hdr = "" THEN [start |-> 0, end |-> realFileSize - 1, isPartial |-> FALSE]
       ELSE IF Len(parts) # 2 THEN [start |-> 0, end |-> realFileSize - 1, isPartial |-> TRUE]
       ELSE [start |-> IF s0 < 0 THEN 0 ELSE s0,
             end |-> IF e0 = 0 THEN realFileSize - 1 ELSE e0,
             isPartial |-> TRUE]

\* lines 225-245: the same on the counter-mode route; end is reset when it
\* is 0 or not below realFileSize
CTRRange(hdr, realFileSize) ==
    LET parts == Split(TrimPrefix(hdr, "bytes="), "-")
        s0 == ParseInt(parts[1])
        e0 == ParseInt(parts[2])
    IN IF hdr = "" THEN [start |-> 0, end |-> realFileSize - 1, isPartial |-> FALSE]
       ELSE IF Len(parts) # 2 THEN [start |-> 0, end |-> realFileSize - 1, isPartial |-> TRUE]
       ELSE [start |-> IF s0 < 0 THEN 0 ELSE s0,
             end |-> IF e0 = 0 \/ e0 >= realFileSize THEN realFileSize - 1 ELSE e0,
             isPartial |-> TRUE]

\* time.Parse(http.TimeFormat, s) for the header values of the model
ParsedDates == [d \in DateHeaders |-> ParseHTTPTime(d)]

\* lines 87-99 and 197-209: 0 to go on, or the status that ends the request
IfModifiedSince_Strict(ims, lastModified) ==
    IF ims = "" THEN 0
    ELSE IF ~ParsedDates[ims].ok THEN 400
    ELSE IF Before(lastModified, ParsedDates[ims].t) THEN 304
    ELSE 0

IfModifiedSince(ims, lastModified) ==
    IF ims = "" THEN 0
    ELSE IF ~ParsedDates[ims].ok THEN 400
    ELSE IF ~After(lastModified, ParsedDates[ims].t) THEN 304
    ELSE 0

IfUnmodifiedSince_After(ius, lastModified) ==
    IF ius = "" THEN 0
    ELSE IF ~ParsedDates[ius].ok THEN 400
    ELSE IF After(lastModified, ParsedDates[ius].t) THEN 412
    ELSE 0

IfUnmodifiedSince_Lenient(ius, lastModified) ==
    IF ius = "" \/ ~ParsedDates[ius].ok THEN 0
    ELSE IF ~Before(lastModified, ParsedDates[ius].t) THEN 412
    ELSE 0

\* lines 136-148 and 260-272: 0 to go on, or the status that ends the request
IfUnmodifiedSince(ius, lastModified) ==
    IF ius = "" THEN 0
    ELSE IF ~ParsedDates[ius].ok THEN 400
    ELSE IF ~Before(lastModified, ParsedDates[ius].t) THEN 412
    ELSE 0

(***************************************************************************)
(* The repeating-key streams on byte sequences (SpecXor).                  *)
(***************************************************************************)
XorInit ==
    /\ xkey \in XorKeys
    /\ xplain \in XorPlaintexts
    /\ xoff \in 0..Len(xplain)
    /\ xw = NoStream
    /\ xsink = <<>>
    /\ xlast = [orig |-> <<>>, after |-> <<>>, n |-> 0]
    /\ xrA = NoStream
    /\ xrB = NoStream
    \* the counter-mode streams are not in use
    /\ cblock = <<0>>
    /\ crand = <<>>
    /\ civ = <<>>
    /\ cplain = <<>>
    /\ coff = 0
    /\ cbase = 0
    /\ cw = NoCtr
    /\ csink = <<>>
    /\ clast = [orig |-> <<>>, after |-> <<>>, n |-> 0]
    /\ crA = NoCtr
    /\ crB = NoCtr
    \* the file server is not in use
    /\ srv = [xorKey |-> <<>>, block |-> <<0>>]
    /\ store = [k \in Routes |-> 0]
    /\ nrep = 0
    /\ req = [r \in Reqs |-> NoReq]
    /\ h = [r \in Reqs |-> Locals("idle")]
    /\ resp = [r \in Reqs |-> NoResp]
    /\ calls = [r \in Reqs |-> <<>>]

NewXorWriter ==
    /\ xw.st = "none"
    /\ xw' = NewXorWriterOp(xkey)
    /\ UNCHANGED <<xkey, xplain, xoff, xsink, xlast, xrA, xrB>>
    /\ UNCHANGED <<cvars, hvars>>

\* One Write call with the next n bytes of the plaintext; the underlying
\* writer accepts acc of them (acc < n is a short write, reported as an error,
\* after which the caller stops).
XorWrite(n, acc) ==
    /\ xw.st = "open"
    /\ n >= 1
    /\ xw.pos + n <= Len(xplain)
    /\ acc <= n
    /\ LET p == SubSeq(xplain, xw.pos + 1, xw.pos + n)
           w == xorWriter_Write(xw, p)
       IN IF w.st = "panic"
          THEN /\ xw' = w
               /\ UNCHANGED <<xsink, xlast>>
          ELSE /\ xw' = [w EXCEPT !.st = IF acc < n THEN "short" ELSE "open"]
               /\ xsink' = xsink \o SubSeq(w.out, 1, acc)
               /\ xlast' = [orig |-> p, after |-> w.out, n |-> acc]
    /\ UNCHANGED <<xkey, xplain, xoff, xrA, xrB>>
    /\ UNCHANGED <<cvars, hvars>>

XorWriterDone ==
    \/ xw.st = "short"
    \/ xw.st = "open" /\ xw.pos = Len(xplain)

\* NewXorReader over the written bytes: A at offset xoff over xsink[xoff..],
\* B at offset 0 over xsink[0..]
NewXorReader(which) ==
    /\ XorWriterDone
    /\ \/ /\ which = "A"
          /\ xrA.st = "none"
          /\ xoff <= Len(xsink)
          /\ xrA' = NewXorReaderOp(xkey, xoff)
          /\ UNCHANGED xrB
       \/ /\ which = "B"
          /\ xrB.st = "none"
          /\ xrB' = NewXorReaderOp(xkey, 0)
          /\ UNCHANGED xrA
    /\ UNCHANGED <<xkey, xplain, xoff, xw, xsink, xlast>>
    /\ UNCHANGED <<cvars, hvars>>

\* what reader A's and reader B's underlying readers hold
XorSource(which) ==
    IF which = "A" THEN SubSeq(xsink, xoff + 1, Len(xsink)) ELSE xsink

\* One Read call in which the underlying reader returns n bytes
XorRead(which, n) ==
    /\ n >= 1
    /\ \/ /\ which = "A"
          /\ xrA.st = "open"
          /\ xrA.pos + n <= Len(XorSource("A"))
          /\ xrA' = xorReader_Read(xrA, SubSeq(XorSource("A"), xrA.pos + 1, xrA.pos + n))
          /\ UNCHANGED xrB
       \/ /\ which = "B"
          /\ xrB.st = "open"
          /\ xrB.pos + n <= Len(XorSource("B"))
          /\ xrB' = xorReader_Read(xrB, SubSeq(XorSource("B"), xrB.pos + 1, xrB.pos + n))
          /\ UNCHANGED xrA
    /\ UNCHANGED <<xkey, xplain, xoff, xw, xsink, xlast>>
    /\ UNCHANGED <<cvars, hvars>>

XorNext ==
    \/ NewXorWriter
    \/ \E n \in 1..MaxChunk : \E acc \in 0..n : XorWrite(n, acc)
    \/ \E which \in {"A", "B"} : NewXorReader(which)
    \/ \E which \in {"A", "B"} : \E n \in 1..MaxChunk : XorRead(which, n)

(***************************************************************************)
(* The counter-mode streams on byte sequences (SpecCTR).                   *)
(***************************************************************************)
\* the 16 bytes rand.Reader yields: a pattern, all 128 bits at their maximum,
\* the low 64 bits at their maximum, and the low byte at its maximum
CtrRands ==
    { Pattern(BlockSize, 7),
      [i \in 1..BlockSize |-> 255],
      [i \in 1..BlockSize |-> IF i <= 8 THEN i ELSE 255],
      [i \in 1..BlockSize |-> IF i = BlockSize THEN 255 ELSE 3 * i] }

\* the two NewCTRWriter of the source: lines 352-366 and lines 423-441
CtrWriters == {"raw", "zeroed"}

CtrPlaintexts == { Pattern(n, 29) : n \in {0, PlainLen, 3 * PlainLen + 2} }

CtrOffsets == {0, 5, BlockSize, BlockSize + 1}

CtrChunks == {1, MaxChunk + 4, BlockSize}

CtrInit ==
    /\ cblock \in Blocks
    /\ crand \in CtrRands
    /\ civ = <<>>
    /\ cplain \in CtrPlaintexts
    /\ coff \in {o \in CtrOffsets : o <= Len(cplain)}
    /\ cbase = 0
    /\ cw = NoCtr
    /\ csink = <<>>
    /\ clast = [orig |-> <<>>, after |-> <<>>, n |-> 0]
    /\ crA = NoCtr
    /\ crB = NoCtr
    \* the repeating-key streams are not in use
    /\ xkey = <<>>
    /\ xplain = <<>>
    /\ xoff = 0
    /\ xw = NoStream
    /\ xsink = <<>>
    /\ xlast = [orig |-> <<>>, after |-> <<>>, n |-> 0]
    /\ xrA = NoStream
    /\ xrB = NoStream
    \* the file server is not in use
    /\ srv = [xorKey |-> <<>>, block |-> <<0>>]
    /\ store = [k \in Routes |-> 0]
    /\ nrep = 0
    /\ req = [r \in Reqs |-> NoReq]
    /\ h = [r \in Reqs |-> Locals("idle")]
    /\ resp = [r \in Reqs |-> NoResp]
    /\ calls = [r \in Reqs |-> <<>>]

\* NewCTRWriter(writer, block), the one of lines 352-366 ("raw") or of lines
\* 423-441 ("zeroed").  outcome "rand": io.ReadFull(rand.Reader, iv) fails,
\* nothing is written and no writer is returned; "write": the underlying
\* writer fails on the IV (a part of it may have gone out) and no writer is
\* returned; "ok": the IV is written, and returned by the one of 352-366
NewCTRWriter(which, outcome) ==
    /\ cw.st = "none"
    /\ LET w == IF which = "raw" THEN NewCTRWriterRawOp(cblock, crand)
                ELSE NewCTRWriterOp(cblock, crand)
       IN CASE outcome = "rand" ->
                 /\ cw' = [NoCtr EXCEPT !.st = "failed"]
                 /\ UNCHANGED <<csink, civ>>
            [] outcome = "write" ->
                 /\ cw' = [w EXCEPT !.st = "failed"]
                 /\ csink' = SubSeq(w.iv, 1, 5)
                 /\ UNCHANGED civ
            [] outcome = "ok" ->
                 /\ cw' = w
                 /\ csink' = w.iv
                 /\ civ' = IF which = "raw" THEN w.iv ELSE civ
    /\ UNCHANGED <<cblock, crand, cplain, coff, cbase, clast, crA, crB>>
    /\ UNCHANGED <<xvars, hvars>>

\* One Write call with the next n bytes of the plaintext, of which the
\* underlying writer accepts acc
CtrWrite(n, acc) ==
    /\ cw.st = "open"
    /\ cw.pos + n <= Len(cplain)
    /\ acc <= n
    /\ LET p == SubSeq(cplain, cw.pos + 1, cw.pos + n)
           w == ctrWriter_Write(cblock, cw, p)
       IN /\ cw' = [w EXCEPT !.st = IF acc < n THEN "short" ELSE "open"]
          /\ csink' = csink \o SubSeq(w.out, 1, acc)
          /\ clast' = [orig |-> p, after |-> p, n |-> acc]
    /\ UNCHANGED <<cblock, crand, cplain, civ, coff, cbase, crA, crB>>
    /\ UNCHANGED <<xvars, hvars>>

\* The caller writes 2^36 bytes ahead of cplain, all accepted; the stored
\* stream grows by as many bytes, which csink leaves out.
CtrWriteFar ==
    /\ cw.st = "open"
    /\ cw.pos = 0
    /\ cbase = 0
    /\ crA.st = "none" /\ crB.st = "none"
    /\ cw' = ctrWriter_WriteFar(cw)
    /\ cbase' = cbase + 1
    /\ UNCHANGED <<cblock, crand, cplain, civ, coff, csink, clast, crA, crB>>
    /\ UNCHANGED <<xvars, hvars>>

CtrWriterDone ==
    \/ cw.st \in {"short", "failed"}
    \/ cw.st = "open" /\ cw.pos = Len(cplain)

\* the IV and the ciphertext a reader of the stored stream works on: the
\* first 16 bytes of the stream, and the ciphertext from byte cbase * 2^36 of
\* it on
CtrIV == SubSeq(csink, 1, BlockSize)

CtrCiphertext == SubSeq(csink, BlockSize + 1, Len(csink))

CtrSource(which) ==
    IF which = "A" THEN SubSeq(CtrCiphertext, coff + 1, Len(CtrCiphertext))
    ELSE CtrCiphertext

\* NewCTRReader over the stored stream: B at offset cbase * 2^36, and, B
\* having read to the end, A at offset cbase * 2^36 + coff (the two readers
\* share nothing, so their order is immaterial)
NewCTRReader(which) ==
    /\ CtrWriterDone
    /\ Len(csink) >= BlockSize
    /\ \/ /\ which = "B"
          /\ crB.st = "none"
          /\ crB' = NewCTRReaderFar(cblock, CtrIV, cbase, 0)
          /\ UNCHANGED crA
       \/ /\ which = "A"
          /\ crA.st = "none"
          /\ crB.st = "open"
          /\ crB.pos = Len(CtrCiphertext)
          /\ coff <= Len(CtrCiphertext)
          /\ crA' = NewCTRReaderFar(cblock, CtrIV, cbase, coff)
          /\ UNCHANGED crB
    /\ UNCHANGED <<cblock, crand, cplain, civ, coff, cbase, cw, csink, clast>>
    /\ UNCHANGED <<xvars, hvars>>

\* One Read call in which the underlying reader returns n bytes
CtrRead(which, n) ==
    /\ \/ /\ which = "A"
          /\ crA.st = "open"
          /\ crA.pos + n <= Len(CtrSource("A"))
          /\ crA' = ctrReader_Read(cblock, crA,
                        SubSeq(CtrSource("A"), crA.pos + 1, crA.pos + n))
          /\ UNCHANGED crB
       \/ /\ which = "B"
          /\ crB.st = "open"
          /\ crA.st = "none"
          /\ crB.pos + n <= Len(CtrSource("B"))
          /\ crB' = ctrReader_Read(cblock, crB,
                        SubSeq(CtrSource("B"), crB.pos + 1, crB.pos + n))
          /\ UNCHANGED crA
    /\ UNCHANGED <<cblock, crand, cplain, civ, coff, cbase, cw, csink, clast>>
    /\ UNCHANGED <<xvars, hvars>>

CtrNext ==
    \/ \E which \in CtrWriters : \E outcome \in {"ok", "rand", "write"} :
           NewCTRWriter(which, outcome)
    \/ \E n \in CtrChunks : \E acc \in {0, n - 1, n} : CtrWrite(n, acc)
    \/ CtrWriteFar
    \/ \E which \in {"A", "B"} : NewCTRReader(which)
    \/ \E which \in {"A", "B"} : \E n \in CtrChunks : CtrRead(which, n)

(***************************************************************************)
(* The file server: one request (Spec).                                    *)
(***************************************************************************)
Init ==
    /\ srv \in [xorKey : ServerKeys, block : Blocks]
    /\ \E rq \in [route : Routes, range : RangeHeaders,
                   ims : DateHeaders, ius : DateHeaders] :
           req = [r \in Reqs |-> IF r = 1 THEN rq ELSE NoReq]
    /\ req[1].route = "ctr" => srv.xorKey = <<90, 60, 255>>
    /\ store \in [Routes -> {0} \cup Versions]
    /\ \A k \in Routes : k # req[1].route => store[k] = 1
    /\ nrep = 0
    /\ h = [r \in Reqs |-> IF req[r] = NoReq THEN Locals("idle") ELSE Locals("head")]
    /\ resp = [r \in Reqs |-> NoResp]
    /\ calls = [r \in Reqs |-> <<>>]
    \* the stream scenarios are not in use
    /\ xkey = <<>>
    /\ xplain = <<>>
    /\ xoff = 0
    /\ xw = NoStream
    /\ xsink = <<>>
    /\ xlast = [orig |-> <<>>, after |-> <<>>, n |-> 0]
    /\ xrA = NoStream
    /\ xrB = NoStream
    /\ cblock = <<0>>
    /\ crand = <<>>
    /\ civ = <<>>
    /\ cplain = <<>>
    /\ coff = 0
    /\ cbase = 0
    /\ cw = NoCtr
    /\ csink = <<>>
    /\ clast = [orig |-> <<>>, after |-> <<>>, n |-> 0]
    /\ crA = NoCtr
    /\ crB = NoCtr

\* The stored object is replaced (v = 0: deleted) between two store calls of
\* a request that reads it; a newer version is no older than the one it
\* replaces.
StoreReplace(key, v) ==
    /\ nrep < MaxReplace
    /\ \E r \in Reqs : req[r].route = key /\ h[r].pc \in {"iv", "get"}
    /\ v # store[key]
    /\ store[key] # 0 /\ v # 0 => ~Before(LastModified(v), LastModified(store[key]))
    /\ store' = [store EXCEPT ![key] = v]
    /\ nrep' = nrep + 1
    /\ UNCHANGED <<srv, req, h, resp, calls>>
    /\ UNCHANGED <<xvars, cvars>>

\* ServeXORFile, lines 69-126: HeadObject, If-Modified-Since, Range
ServeXORFile_Head(r, fail) ==
    /\ req[r].route = "xor"
    /\ h[r].pc = "head"
    /\ LET ho == HeadObject("xor", fail)
           ims == IfModifiedSince(req[r].ims, ho.lm)
           rg == XORRange(req[r].range, ho.size)
           loc == [h[r] EXCEPT !.fileSize = ho.size, !.headLM = ho.lm, !.ctype = ho.ctype]
           ranged == [loc EXCEPT !.start = rg.start, !.end = rg.end,
                                 !.isPartial = rg.isPartial,
                                 !.requestedRange = FormatRange(rg.start, rg.end)]
       IN /\ calls' = Called(r, "HeadObject", "", "xor", ho.err)
          /\ IF ho.err = "NotFound"
             THEN resp' = WriteHeader(r, 404) /\ h' = Finish(r)
             ELSE IF ho.err # ""
             THEN resp' = HttpError(r, ho.err, 500) /\ h' = Finish(r)
             ELSE IF ims = 400
             THEN /\ resp' = HttpError(r, "invalid If-Modified-Since header", 400)
                  /\ h' = [h EXCEPT ![r] = [loc EXCEPT !.pc = "done"]]
             ELSE IF ims = 304
             THEN /\ resp' = WriteHeader(r, 304)
                  /\ h' = [h EXCEPT ![r] = [loc EXCEPT !.pc = "done"]]
             ELSE IF rg.start >= rg.end
             THEN /\ resp' = HttpError(r, "requested range not satisfiable", 416)
                  /\ h' = [h EXCEPT ![r] = [ranged EXCEPT !.pc = "done"]]
             ELSE /\ h' = [h EXCEPT ![r] = [ranged EXCEPT !.pc = "get"]]
                  /\ UNCHANGED resp
    /\ UNCHANGED <<srv, store, nrep, req>>
    /\ UNCHANGED <<xvars, cvars>>

StreamHeaders_RawSize(loc, go, logicalSize) ==
    [status |-> IF loc.isPartial THEN 206 ELSE 200,
     writes |-> 1,
     acceptRanges |-> "bytes",
     ctype |-> loc.ctype,
     xcto |-> "",
     clen |-> Itoa(loc.end - loc.start + 1),
     etag |-> go.etag,
     lastModified |-> go.lm,
     crange |-> IF loc.isPartial
                THEN FormatContentRange(loc.start, loc.end, loc.fileSize) ELSE "",
     body |-> <<>>]

\* the headers of a streamed response and WriteHeader(status), lines 153-169
\* and 280-296
StreamHeaders(loc, go, logicalSize) ==
    [status |-> IF loc.isPartial THEN 206 ELSE 200,
     writes |-> 1,
     acceptRanges |-> "bytes",
     ctype |-> loc.ctype,
     xcto |-> "",
     clen |-> Itoa(loc.end - loc.start + 1),
     etag |-> go.etag,
     lastModified |-> go.lm,
     crange |-> IF loc.isPartial
                THEN FormatContentRange(loc.start, loc.end, logicalSize) ELSE "",
     body |-> <<>>]

\* ServeXORFile, lines 128-169: GetRangeObject, If-Unmodified-Since,
\* NewXorReader, headers and status
ServeXORFile_Get(r, fail) ==
    /\ req[r].route = "xor"
    /\ h[r].pc = "get"
    /\ LET go == GetRangeObject("xor", h[r].requestedRange, fail)
           ius == IfUnmodifiedSince(req[r].ius, go.lm)
       IN /\ calls' = Called(r, "GetRangeObject", h[r].requestedRange, "xor", go.err)
          /\ IF go.err # ""
             THEN resp' = HttpError(r, go.err, 500) /\ h' = Finish(r)
             ELSE IF ius = 400
             THEN /\ resp' = HttpError(r, "invalid If-Unmodified-Since header", 400)
                  /\ h' = Finish(r)
             ELSE IF ius = 412
             THEN resp' = WriteHeader(r, 412) /\ h' = Finish(r)
             ELSE /\ h' = [h EXCEPT ![r].pc = "copy", ![r].src = go.body,
                                    ![r].rd = NewXorReaderOp(srv.xorKey, h[r].start)]
                  /\ resp' = [resp EXCEPT ![r] =
                                 [StreamHeaders(h[r], go, h[r].fileSize)
                                      EXCEPT !.writes = resp[r].writes + 1]]
    /\ UNCHANGED <<srv, store, nrep, req>>
    /\ UNCHANGED <<xvars, cvars>>

\* the sizes of the chunks the body of a ranged fetch arrives in
CopyChunks == {MaxChunk + 4, BlockSize}

\* ServeXORFile, line 172: one round of io.Copy, the body yielding up to c
\* bytes; the reader panics on an empty key
ServeXORFile_Copy(r, c) ==
    /\ req[r].route = "xor"
    /\ h[r].pc = "copy"
    /\ LET n == Min(c, Len(h[r].src) - h[r].rd.pos)
           rd == xorReader_Read(h[r].rd, SubSeq(h[r].src, h[r].rd.pos + 1, h[r].rd.pos + n))
       IN IF rd.st = "panic"
          THEN /\ h' = [h EXCEPT ![r].pc = "panic", ![r].rd = rd]
               /\ UNCHANGED resp
          ELSE /\ h' = [h EXCEPT ![r].rd = rd,
                                 ![r].pc = IF rd.pos = Len(h[r].src) THEN "done" ELSE "copy"]
               /\ resp' = [resp EXCEPT ![r].body = rd.out]
    /\ UNCHANGED <<srv, store, nrep, req, calls>>
    /\ UNCHANGED <<xvars, cvars>>

\* ServeCTRFile, lines 178-209: HeadObject, If-Modified-Since
ServeCTRFile_Head(r, fail) ==
    /\ req[r].route = "ctr"
    /\ h[r].pc = "head"
    /\ LET ho == HeadObject("ctr", fail)
           ims == IfModifiedSince(req[r].ims, ho.lm)
           loc == [h[r] EXCEPT !.fileSize = ho.size, !.headLM = ho.lm, !.ctype = ho.ctype]
       IN /\ calls' = Called(r, "HeadObject", "", "ctr", ho.err)
          /\ IF ho.err = "NotFound"
             THEN resp' = WriteHeader(r, 404) /\ h' = Finish(r)
             ELSE IF ho.err # ""
             THEN resp' = HttpError(r, ho.err, 500) /\ h' = Finish(r)
             ELSE IF ims = 400
             THEN /\ resp' = HttpError(r, "invalid If-Modified-Since header", 400)
                  /\ h' = [h EXCEPT ![r] = [loc EXCEPT !.pc = "done"]]
             ELSE IF ims = 304
             THEN /\ resp' = WriteHeader(r, 304)
                  /\ h' = [h EXCEPT ![r] = [loc EXCEPT !.pc = "done"]]
             ELSE /\ h' = [h EXCEPT ![r] = [loc EXCEPT !.pc = "iv"]]
                  /\ UNCHANGED resp
    /\ UNCHANGED <<srv, store, nrep, req>>
    /\ UNCHANGED <<xvars, cvars>>

\* iv := make([]byte, aes.BlockSize), line 219: every invocation makes its
\* own buffer; the buffer of request r is the iv field of h[IVBuffer(r)]
IVBuffer_Shared(r) == 1

IVBuffer(r) == r

\* io.ReadFull(ivObj.Body, iv), line 220, on the fresh buffer: the bytes read
\* in front, zeros behind; an error unless aes.BlockSize bytes were read
ReadFull_Unchecked(body) ==
    [iv |-> [i \in 1..BlockSize |-> IF i <= Len(body) THEN body[i] ELSE 0],
     ok |-> TRUE]

ReadFull(body) ==
    [iv |-> [i \in 1..BlockSize |-> IF i <= Len(body) THEN body[i] ELSE 0],
     ok |-> Len(body) = BlockSize]

IVRange_OffByOne == "bytes=0-" \o Itoa(BlockSize)

\* fmt.Sprintf("bytes=0-%d", aes.BlockSize-1), line 212
IVRange == "bytes=0-" \o Itoa(BlockSize - 1)

\* ServeCTRFile, lines 211-250: the IV fetch, io.ReadFull, Range
ServeCTRFile_IV(r, fail) ==
    /\ req[r].route = "ctr"
    /\ h[r].pc = "iv"
    /\ LET ivObj == GetRangeObject("ctr", IVRange, fail)
           rf == ReadFull(ivObj.body)
           rg == CTRRange(req[r].range, h[r].fileSize - BlockSize)
           ranged == [h[r] EXCEPT !.start = rg.start, !.end = rg.end,
                                  !.isPartial = rg.isPartial,
                                  !.requestedRange =
                                      FormatRange(rg.start + BlockSize, rg.end + BlockSize)]
       IN /\ calls' = Called(r, "GetRangeObject", IVRange, "ctr", ivObj.err)
          /\ IF ivObj.err # ""
             THEN resp' = HttpError(r, ivObj.err, 500) /\ h' = Finish(r)
             ELSE IF ~rf.ok
             THEN /\ resp' = HttpError(r, "failed to read iv", 500)
                  /\ h' = [h EXCEPT ![r].pc = "done", ![IVBuffer(r)].iv = rf.iv]
             ELSE IF rg.start >= rg.end
             THEN /\ resp' = HttpError(r, "requested range not satisfiable", 416)
                  /\ h' = [h EXCEPT ![r] = [ranged EXCEPT !.pc = "done"],
                                    ![IVBuffer(r)].iv = rf.iv]
             ELSE /\ h' = [h EXCEPT ![r] = [ranged EXCEPT !.pc = "get"],
                                    ![IVBuffer(r)].iv = rf.iv]
                  /\ UNCHANGED resp
    /\ UNCHANGED <<srv, store, nrep, req>>
    /\ UNCHANGED <<xvars, cvars>>

\* ServeCTRFile, lines 252-296: GetRangeObject, If-Unmodified-Since,
\* NewCTRReader (which returns no error), headers and status
ServeCTRFile_Get(r, fail) ==
    /\ req[r].route = "ctr"
    /\ h[r].pc = "get"
    /\ LET go == GetRangeObject("ctr", h[r].requestedRange, fail)
           ius == IfUnmodifiedSince(req[r].ius, go.lm)
           rd == NewCTRReaderOp(srv.block, h[IVBuffer(r)].iv, h[r].start)
       IN /\ calls' = Called(r, "GetRangeObject", h[r].requestedRange, "ctr", go.err)
          /\ IF go.err # ""
             THEN resp' = HttpError(r, go.err, 500) /\ h' = Finish(r)
             ELSE IF ius = 400
             THEN /\ resp' = HttpError(r, "invalid If-Unmodified-Since header", 400)
                  /\ h' = Finish(r)
             ELSE IF ius = 412
             THEN resp' = WriteHeader(r, 412) /\ h' = Finish(r)
             ELSE /\ h' = [h EXCEPT ![r].pc = "copy", ![r].src = go.body,
                                    ![r].rd = rd, ![IVBuffer(r)].iv = rd.iv]
                  /\ resp' = [resp EXCEPT ![r] =
                                 [StreamHeaders(h[r], go, h[r].fileSize - BlockSize)
                                      EXCEPT !.writes = resp[r].writes + 1]]
    /\ UNCHANGED <<srv, store, nrep, req>>
    /\ UNCHANGED <<xvars, cvars>>

\* ServeCTRFile, line 299: one round of io.Copy
ServeCTRFile_Copy(r, c) ==
    /\ req[r].route = "ctr"
    /\ h[r].pc = "copy"
    /\ LET n == Min(c, Len(h[r].src) - h[r].rd.pos)
           rd == ctrReader_Read(srv.block, h[r].rd,
                                SubSeq(h[r].src, h[r].rd.pos + 1, h[r].rd.pos + n))
       IN /\ h' = [h EXCEPT ![r].rd = rd,
                            ![r].pc = IF rd.pos = Len(h[r].src) THEN "done" ELSE "copy"]
          /\ resp' = [resp EXCEPT ![r].body = rd.out]
    /\ UNCHANGED <<srv, store, nrep, req, calls>>
    /\ UNCHANGED <<xvars, cvars>>

\* the Read of one round of io.Copy on the reader of request r, the body
\* yielding the bytes `got`
Reader_Read(r, got) ==
    IF req[r].route = "xor" THEN xorReader_Read(h[r].rd, got)
    ELSE ctrReader_Read(srv.block, h[r].rd, got)

\* lines 172-175 and 299-302: io.Copy fails; the error is logged and the
\* handler returns.  cause "write": the round's Read yields up to c bytes,
\* the reader transforms them, and the Write to the client fails (the client
\* is gone): the reader has moved on, the bytes have not reached the
\* response (out holds what has).  cause "read": the body breaks off, its
\* Read returning no byte and an error, which the reader passes on.
CopyAbort(r, c, cause) ==
    /\ h[r].pc = "copy"
    /\ LET n == IF cause = "write" THEN Min(c, Len(h[r].src) - h[r].rd.pos) ELSE 0
           rd == Reader_Read(r, SubSeq(h[r].src, h[r].rd.pos + 1, h[r].rd.pos + n))
       IN /\ cause = "write" => n >= 1
          /\ rd.st # "panic"
          /\ h' = [h EXCEPT ![r].pc = "done", ![r].err = "copy",
                            ![r].rd = [rd EXCEPT !.out = h[r].rd.out]]
    /\ UNCHANGED <<srv, store, nrep, req, resp, calls>>
    /\ UNCHANGED <<xvars, cvars>>

Next ==
    \/ \E key \in Routes : \E v \in {0} \cup Versions : StoreReplace(key, v)
    \/ \E r \in Reqs : \E fail \in BOOLEAN : ServeXORFile_Head(r, fail)
    \/ \E r \in Reqs : \E fail \in BOOLEAN : ServeXORFile_Get(r, fail)
    \/ \E r \in Reqs : \E c \in CopyChunks : ServeXORFile_Copy(r, c)
    \/ \E r \in Reqs : \E fail \in BOOLEAN : ServeCTRFile_Head(r, fail)
    \/ \E r \in Reqs : \E fail \in BOOLEAN : ServeCTRFile_IV(r, fail)
    \/ \E r \in Reqs : \E fail \in BOOLEAN : ServeCTRFile_Get(r, fail)
    \/ \E r \in Reqs : \E c \in CopyChunks : ServeCTRFile_Copy(r, c)
    \/ \E r \in Reqs : \E c \in CopyChunks : \E cause \in {"read", "write"} :
           CopyAbort(r, c, cause)

Spec == Init /\ [][Next]_vars

(***************************************************************************)
(* The file server: two requests handled at once, each by its own call of  *)
(* a handler on the same HTTPFileServer, the store unchanging (SpecPair).  *)
(***************************************************************************)
PairRequests ==
    [route : Routes, range : {"", "bytes=17-", "bytes=5-5"},
     ims : {"", "Tue, 14 Nov 2023 22:13:20 GMT"}, ius : {""}]

PairInit ==
    /\ srv \in [xorKey : {<<90, 60, 255>>}, block : Blocks]
    /\ req \in [Reqs -> PairRequests \cup {NoReq}]
    /\ req[1] # NoReq
    /\ store \in [Routes -> {1, 2}]
    /\ nrep = 0
    /\ h = [r \in Reqs |-> IF req[r] = NoReq THEN Locals("idle") ELSE Locals("head")]
    /\ resp = [r \in Reqs |-> NoResp]
    /\ calls = [r \in Reqs |-> <<>>]
    \* the stream scenarios are not in use
    /\ xkey = <<>>
    /\ xplain = <<>>
    /\ xoff = 0
    /\ xw = NoStream
    /\ xsink = <<>>
    /\ xlast = [orig |-> <<>>, after |-> <<>>, n |-> 0]
    /\ xrA = NoStream
    /\ xrB = NoStream
    /\ cblock = <<0>>
    /\ crand = <<>>
    /\ civ = <<>>
    /\ cplain = <<>>
    /\ coff = 0
    /\ cbase = 0
    /\ cw = NoCtr
    /\ csink = <<>>
    /\ clast = [orig |-> <<>>, after |-> <<>>, n |-> 0]
    /\ crA = NoCtr
    /\ crB = NoCtr

\* the steps of the two handlers in any order; every store call succeeds or
\* fails by what the store holds
PairNext ==
    \/ \E r \in Reqs : ServeXORFile_Head(r, FALSE)
    \/ \E r \in Reqs : ServeXORFile_Get(r, FALSE)
    \/ \E r \in Reqs : \E c \in CopyChunks : ServeXORFile_Copy(r, c)
    \/ \E r \in Reqs : ServeCTRFile_Head(r, FALSE)
    \/ \E r \in Reqs : ServeCTRFile_IV(r, FALSE)
    \/ \E r \in Reqs : ServeCTRFile_Get(r, FALSE)
    \/ \E r \in Reqs : \E c \in CopyChunks : ServeCTRFile_Copy(r, c)

SpecPair == PairInit /\ [][PairNext]_vars

SpecXor == XorInit /\ [][XorNext]_vars

SpecCTR == CtrInit /\ [][CtrNext]_vars

(***************************************************************************)
(* The claims.                                                             *)
(***************************************************************************)

\* C1: counter-mode seek consistency. For every IV, the bytes a ctrReader
\* built at offset o produces equal the bytes a ctrReader built with the same
\* IV at offset 0 produces after its first o bytes, for every chunking.
C1_CtrSeekConsistency ==
    \A k \in 1..Len(crA.out) :
        coff + k <= Len(crB.out) => crA.out[k] = crB.out[coff + k]

\* C11: counter-mode round trip. The stream NewCTRWriter and the Write calls
\* produce is the 16-byte IV followed by one ciphertext byte per plaintext
\* byte, and a reader built by NewCTRReader with the IV taken from the first
\* 16 bytes of that stream, at any offset o of the plaintext, reproduces the
\* plaintext from o on, for every plaintext length.  The round trip is that
\* of the NewCTRWriter of lines 423-441, which returns no IV (civ = <<>>).
C11_CtrRoundTrip ==
    /\ cw.st = "open" =>
           /\ Len(csink) = BlockSize + cw.pos
           /\ SubSeq(csink, 1, BlockSize) = cw.iv
    /\ (civ = <<>> /\ cw.st = "open" /\ crA.st = "open") =>
           crA.out = SubSeq(cplain, coff + 1, coff + Len(crA.out))

(***************************************************************************)
(* What the claims about the handlers speak of.                            *)
(***************************************************************************)
\* the handler of request r has returned (or panicked)
Ended(r) == h[r].pc \in {"done", "panic"}

\* the size clients see: the stored size, less the IV on the counter-mode route
LogicalSize(r) ==
    IF req[r].route = "ctr" THEN h[r].fileSize - BlockSize ELSE h[r].fileSize

\* every store call request r has made succeeded, the metadata fetch among them
AllFetchesOk(r) ==
    /\ Len(calls[r]) >= 1
    /\ \A i \in 1..Len(calls[r]) : calls[r][i].ok

\* the ranged fetches request r has issued (the IV fetch and the body fetch)
RangedFetches(r) == {i \in 1..Len(calls[r]) : calls[r][i].op = "GetRangeObject"}

\* where the body fetch stands in the log of request r
BodyFetch(r) == IF req[r].route = "ctr" THEN 3 ELSE 2

Malformed(d) == d # "" /\ ~ParsedDates[d].ok

\* the line http.Error writes to the body of an error response
ErrorLine(msg) == Bytes(msg \o "\n")

\* the bytes of the object that request r has written to its response
ObjectBytes(r) == h[r].rd.out

Parses(d) == d # "" /\ ParsedDates[d].ok

\* C2: on both routes every range served with 200 or 206 satisfies
\* 0 <= start <= end < logicalSize.
C2_ServedRangeInBounds ==
    \A r \in Reqs :
        resp[r].status \in {200, 206} =>
            /\ 0 <= h[r].start
            /\ h[r].start <= h[r].end
            /\ h[r].end < LogicalSize(r)

\* C3: on the counter-mode route a request without Range and conditional
\* headers for a stored object of size 16+N, every fetch succeeding and the
\* object unchanged, ends with 200, Content-Length N, no Content-Range and
\* the N plaintext bytes as body, for every N.
C3_CtrFullObject ==
    \A r \in Reqs :
        ( /\ req[r].route = "ctr"
          /\ req[r].range = "" /\ req[r].ims = "" /\ req[r].ius = ""
          /\ Ended(r) /\ h[r].err = ""
          /\ AllFetchesOk(r)
          /\ nrep = 0
          /\ store["ctr"] \in 1..5 )
        => /\ resp[r].status = 200
           /\ resp[r].clen = Itoa(Len(Plain(store["ctr"])))
           /\ resp[r].crange = ""
           /\ resp[r].body = Plain(store["ctr"])

\* C4: when If-Modified-Since parses and the last-modified time of the
\* metadata fetch is not after it (equal included), the request ends with
\* 304 and issues no ranged fetch.
C4_NotModified ==
    \A r \in Reqs :
        ( /\ Parses(req[r].ims)
          /\ Len(calls[r]) >= 1 /\ calls[r][1].ok
          /\ ~After(LastModified(calls[r][1].ver), ParsedDates[req[r].ims].t) )
        => /\ Ended(r)
           /\ resp[r].status = 304
           /\ RangedFetches(r) = {}

\* a counter-mode request whose If-Modified-Since is the object's exact
\* last-modified time has been answered
C4_Witness ==
    /\ req[1].route = "ctr"
    /\ req[1].ims = "Tue, 14 Nov 2023 22:13:20 GMT"
    /\ Len(calls[1]) = 1 /\ calls[1][1].ok
    /\ LastModified(calls[1][1].ver) = ParsedDates[req[1].ims].t
    /\ resp[1].status = 304

\* C5: a request that ends with 416 has issued no ranged fetch: the only
\* store call made is the metadata fetch.
C5_NoRangedFetchOn416 ==
    \A r \in Reqs : resp[r].status = 416 => RangedFetches(r) = {}

\* What ServeCTRFile does instead: a request that ends with 416 has issued
\* no body fetch; on the repeating-key route its only store call is the
\* metadata fetch, on the counter-mode route the metadata fetch and then the
\* IV fetch bytes=0-15, which the handler makes before it resolves the range.
C5_NoBodyFetchOn416 ==
    \A r \in Reqs :
        resp[r].status = 416 =>
            /\ Ended(r)
            /\ calls[r][1].op = "HeadObject"
            /\ req[r].route = "xor" => Len(calls[r]) = 1
            /\ req[r].route = "ctr" =>
                   /\ Len(calls[r]) = 2
                   /\ calls[r][2] = [op |-> "GetRangeObject", range |-> "bytes=0-15",
                                     ver |-> calls[r][2].ver, ok |-> TRUE]

\* a counter-mode request for bytes=30-10 has been answered 416
C5_Witness ==
    /\ req[1].route = "ctr"
    /\ req[1].range = "bytes=30-10"
    /\ resp[1].status = 416
    /\ Len(calls[1]) = 2

\* C6: the If-Unmodified-Since precondition is decided against the
\* last-modified value of the body fetch: when the header parses and that
\* value is not before it, the request ends with 412 and no body byte.
C6_PreconditionOnBodyFetch ==
    \A r \in Reqs :
        ( /\ Parses(req[r].ius)
          /\ Len(calls[r]) >= BodyFetch(r) /\ calls[r][BodyFetch(r)].ok
          /\ ~Before(LastModified(calls[r][BodyFetch(r)].ver),
                     ParsedDates[req[r].ius].t) )
        => /\ Ended(r)
           /\ resp[r].status = 412
           /\ resp[r].body = <<>>

\* the object was replaced between the metadata fetch and the body fetch;
\* the metadata fetch's last-modified was before the header time, the body
\* fetch's is not, and the request ended 412
C6_Witness ==
    /\ Parses(req[1].ius)
    /\ Len(calls[1]) = BodyFetch(1)
    /\ calls[1][1].ver # calls[1][BodyFetch(1)].ver
    /\ Before(LastModified(calls[1][1].ver), ParsedDates[req[1].ius].t)
    /\ ~Before(LastModified(calls[1][BodyFetch(1)].ver), ParsedDates[req[1].ius].t)
    /\ resp[1].status = 412

\* C7 as claimed: for an existing object and with every fetch succeeding, a
\* request with a malformed If-Modified-Since or If-Unmodified-Since ends
\* with 400 whatever the Range header is.
C7_MalformedDateIs400 ==
    \A r \in Reqs :
        ( /\ Malformed(req[r].ims) \/ Malformed(req[r].ius)
          /\ Ended(r)
          /\ AllFetchesOk(r) )
        => resp[r].status = 400

\* C7 as amended: a malformed If-Modified-Since always ends with 400; a
\* malformed If-Unmodified-Since is read only after the body fetch, so it
\* ends with 400 exactly when the request gets that far, and otherwise with
\* the 304, the 416 or the 500 of a short IV that ended it before.
C7_MalformedDateWhenRead ==
    \A r \in Reqs :
        ( Ended(r) /\ AllFetchesOk(r) ) =>
            /\ Malformed(req[r].ims) => resp[r].status = 400
            /\ (Malformed(req[r].ius) /\ ~Malformed(req[r].ims)) =>
                   /\ resp[r].status = 400 <=> Len(calls[r]) = BodyFetch(r)
                   /\ resp[r].status # 400 =>
                          \/ resp[r].status \in {304, 416}
                          \/ /\ resp[r].status = 500
                             /\ resp[r].body = ErrorLine("failed to read iv")

\* a request with a malformed If-Unmodified-Since and a satisfiable range
\* has made its body fetch and ended 400
C7_Witness ==
    /\ Malformed(req[1].ius)
    /\ req[1].range = "bytes=10-30"
    /\ AllFetchesOk(1)
    /\ Len(calls[1]) = BodyFetch(1)
    /\ resp[1].status = 400

\* the range the handler of request r resolves from the Range header and the
\* size the metadata fetch returned
Resolved(r) ==
    IF req[r].route = "ctr" THEN CTRRange(req[r].range, h[r].fileSize - BlockSize)
    ELSE XORRange(req[r].range, h[r].fileSize)

\* the metadata fetch of request r succeeded and the not-modified check let
\* the request pass
PastNotModified(r) ==
    /\ Len(calls[r]) >= 1 /\ calls[r][1].ok
    /\ IfModifiedSince(req[r].ims, LastModified(calls[r][1].ver)) = 0

\* C12: on both routes, when the not-modified check does not fire, a request
\* ends with 416 exactly when start >= end after defaulting and clamping, and
\* then no header of a 200/206 response and no body byte is written.
C12_UnsatisfiableIs416 ==
    \A r \in Reqs :
        (Ended(r) /\ PastNotModified(r)) =>
            /\ resp[r].status = 416 <=> Resolved(r).start >= Resolved(r).end
            /\ resp[r].status = 416 =>
                   /\ resp[r].body = <<>>
                   /\ resp[r].clen = "" /\ resp[r].crange = ""
                   /\ resp[r].acceptRanges = "" /\ resp[r].etag = 0

\* w.WriteHeader(code) on a fresh response
StatusResponse(code) == [NoResp EXCEPT !.status = code, !.writes = 1]

\* http.Error(w, msg, code) on a fresh response
ErrorResponse(msg, code) ==
    [NoResp EXCEPT !.status = code, !.writes = 1,
                   !.ctype = "text/plain; charset=utf-8", !.xcto = "nosniff",
                   !.body = ErrorLine(msg)]

\* the response a request gets when its handler runs alone from the metadata
\* fetch to the end of io.Copy, against the store as it is
AloneResponse(rq) ==
    LET key == rq.route
        shift == IF key = "ctr" THEN BlockSize ELSE 0
        ho == HeadObject(key, FALSE)
        ims == IfModifiedSince(rq.ims, ho.lm)
        ivObj == GetRangeObject(key, IVRange, FALSE)
        rg == IF key = "ctr" THEN CTRRange(rq.range, ho.size - BlockSize)
              ELSE XORRange(rq.range, ho.size)
        go == GetRangeObject(key, FormatRange(rg.start + shift, rg.end + shift), FALSE)
        ius == IfUnmodifiedSince(rq.ius, go.lm)
        loc == [Locals("get") EXCEPT !.ctype = ho.ctype, !.start = rg.start,
                                     !.end = rg.end, !.isPartial = rg.isPartial]
        body == IF key = "ctr"
                THEN XORKeyStream(srv.block,
                                  NewCTRReaderOp(srv.block, ivObj.body, rg.start).stream,
                                  go.body).dst
                ELSE XorTransform(srv.xorKey, rg.start, go.body)
    IN IF ho.err = "NotFound" THEN StatusResponse(404)
       ELSE IF ho.err # "" THEN ErrorResponse(ho.err, 500)
       ELSE IF ims = 400 THEN ErrorResponse("invalid If-Modified-Since header", 400)
       ELSE IF ims = 304 THEN StatusResponse(304)
       ELSE IF key = "ctr" /\ ivObj.err # "" THEN ErrorResponse(ivObj.err, 500)
       ELSE IF key = "ctr" /\ Len(ivObj.body) # BlockSize
       THEN ErrorResponse("failed to read iv", 500)
       ELSE IF rg.start >= rg.end
       THEN ErrorResponse("requested range not satisfiable", 416)
       ELSE IF go.err # "" THEN ErrorResponse(go.err, 500)
       ELSE IF ius = 400 THEN ErrorResponse("invalid If-Unmodified-Since header", 400)
       ELSE IF ius = 412 THEN StatusResponse(412)
       ELSE [StreamHeaders(loc, go, ho.size - shift) EXCEPT !.body = body]

\* what a step may change of the requests other than r: nothing
OthersUntouched(r) ==
    \A o \in Reqs \ {r} : h'[o] = h[o] /\ resp'[o] = resp[o] /\ calls'[o] = calls[o]

\* C13: request isolation. With two requests handled at once against an
\* unchanging store, under every interleaving of their steps each request's
\* response (status, headers, body) is the one it gets when run alone, and
\* no step of one request writes the cursor, the IV buffer, the range
\* variables of the other, or the key material of the server.
C13_RequestIsolation ==
    /\ [](\A r \in Reqs : Ended(r) => resp[r] = AloneResponse(req[r]))
    /\ [][ /\ srv' = srv
           /\ \A r \in Reqs : (h'[r] # h[r] \/ resp'[r] # resp[r]) => OthersUntouched(r)
         ]_vars

\* two counter-mode requests for the same object served at once, the second
\* having fetched its IV before the first built its reader at offset 17,
\* and both answered in full
C13_Witness ==
    /\ req[1].route = "ctr" /\ req[1].range = "bytes=17-"
    /\ req[2].route = "ctr" /\ req[2].range = ""
    /\ h[1].pc = "done" /\ h[2].pc = "done"
    /\ resp[1].status = 206 /\ resp[2].status = 200
    /\ Len(resp[1].body) = 3 /\ Len(resp[2].body) = 20

\* byte p (from 0) of the keystream of cipher.NewCTR(block, iv): what the
\* plaintext byte at position p was XORed with when the object was written
KeystreamByte(block, iv, p) ==
    XORKeyStream(block, NewCTR(iv), [i \in 1..(p + 1) |-> 0]).dst[p + 1]

\* C14: on the counter-mode route the body fetch asks for the storage bytes
\* start+16 to end+16 and the cipher stream is seeded at the plaintext offset
\* start: body byte k is stored[16+start+k] XOR the keystream byte at
\* plaintext position start+k for the object's IV.
C14_CtrBodyBytes ==
    \A r \in Reqs :
        ( /\ req[r].route = "ctr"
          /\ resp[r].status \in {200, 206}
          /\ calls[r][2].ver = calls[r][3].ver )
        => LET stored == StoredData("ctr", calls[r][3].ver)
               iv == SubSeq(stored, 1, BlockSize)
           IN /\ calls[r][3].range =
                     FormatRange(h[r].start + BlockSize, h[r].end + BlockSize)
              /\ \A k \in 0..(Len(resp[r].body) - 1) :
                     resp[r].body[k + 1] =
                         Xor(stored[BlockSize + h[r].start + k + 1],
                             KeystreamByte(srv.block, iv, h[r].start + k))

\* the big-endian number in bytes i..j of a byte sequence (three bytes at most)
RECURSIVE BEValue(_, _, _)
BEValue(bytes, i, j) ==
    IF j < i THEN 0 ELSE 256 * BEValue(bytes, i, j - 1) + bytes[j]

\* reg's last 8 bytes hold (iv's last 8 bytes + far * 2^32 + q) mod 2^64, the
\* sum taken in limbs of 24, 24 and 16 bits
Low64Sum(reg, iv, far, q) ==
    LET limb == 256 * 256 * 256
        s0 == BEValue(iv, 14, 16) + q
        s1 == BEValue(iv, 11, 13) + 256 * far + (s0 \div limb)
        s2 == BEValue(iv, 9, 10) + (s1 \div limb)
    IN /\ BEValue(reg, 14, 16) = s0 % limb
       /\ BEValue(reg, 11, 13) = s1 % limb
       /\ BEValue(reg, 9, 10) = s2 % (256 * 256)

\* C15: the starting counter register of NewCTRReader. For every IV and
\* offset o, its last 8 bytes are (IV_low64 + floor(o/16)) mod 2^64 and its
\* first 8 bytes are the IV's first 8 bytes: an overflow of the low 64 bits
\* never carries into the nonce.
C15_StartingCounter ==
    /\ crA.st = "open" =>
           /\ SubSeq(crA.iv, 1, 8) = SubSeq(CtrIV, 1, 8)
           /\ Low64Sum(crA.iv, CtrIV, cbase, coff \div BlockSize)
    /\ crB.st = "open" =>
           /\ SubSeq(crB.iv, 1, 8) = SubSeq(CtrIV, 1, 8)
           /\ Low64Sum(crB.iv, CtrIV, cbase, 0)

\* a reader built at offset 16 with an IV whose low 64 bits are all ones:
\* the low 64 bits of the register are 0, the nonce is the IV's
C15_Witness ==
    /\ crA.st = "open"
    /\ coff = BlockSize /\ cbase = 0
    /\ civ # <<>>
    /\ \A i \in 9..16 : civ[i] = 255
    /\ \A i \in 9..16 : crA.iv[i] = 0
    /\ civ[8] = 8 /\ crA.iv[8] = 8

\* C16: on both routes a response that streams a body has status 206 exactly
\* when the Range header is non-empty and 200 exactly when it is empty; its
\* Content-Length is end-start+1 of the resolved range; Content-Range is set
\* on 206 responses only, as bytes start-end/logicalSize, the logical size
\* being the stored size (repeating-key) or the stored size minus 16
\* (counter mode).
C16_StreamedHeaders ==
    \A r \in Reqs :
        /\ resp[r].status \in {200, 206} =>
               /\ resp[r].status = 206 <=> req[r].range # ""
               /\ resp[r].status = 200 <=> req[r].range = ""
               /\ resp[r].clen = Itoa(h[r].end - h[r].start + 1)
               /\ resp[r].crange =
                      IF resp[r].status = 206
                      THEN FormatContentRange(h[r].start, h[r].end, LogicalSize(r))
                      ELSE ""
        /\ resp[r].crange # "" => resp[r].status = 206
        /\ ObjectBytes(r) # <<>> => resp[r].status \in {200, 206}

\* bytes=10-30 of a 20-byte logical object on the counter-mode route (36
\* bytes stored): 206, Content-Length 10, Content-Range bytes 10-19/20
C16_Witness ==
    /\ req[1].route = "ctr" /\ req[1].range = "bytes=10-30"
    /\ h[1].fileSize = 36
    /\ h[1].pc = "done" /\ Len(resp[1].body) = 10
    /\ resp[1].status = 206
    /\ resp[1].clen = "10"
    /\ resp[1].crange = "bytes 10-19/20"

\* the IV fetch of request r (its second store call) failed, or succeeded
\* with fewer than 16 bytes
IVFetchFailed(r) ==
    /\ req[r].route = "ctr"
    /\ Len(calls[r]) >= 2
    /\ \/ ~calls[r][2].ok
       \/ Len(StoredData("ctr", calls[r][2].ver)) < BlockSize

\* C17: on the counter-mode route, when the IV fetch fails or yields fewer
\* than 16 bytes, the request ends with 500; the body fetch is never issued,
\* no cipher stream is constructed and no body byte is written.
C17_ShortIVIs500 ==
    \A r \in Reqs :
        IVFetchFailed(r) =>
            /\ Ended(r)
            /\ resp[r].status = 500
            /\ Len(calls[r]) = 2
            /\ h[r].rd.st = "none"
            /\ resp[r].body = <<>>

\* C17 as amended: on the counter-mode route, when the IV fetch fails or
\* yields fewer than 16 bytes, the request ends with 500; the body fetch is
\* never issued, no cipher stream is constructed and no byte of the object
\* is written: the body of the response is the one line of text http.Error
\* writes ("failed to read iv", or the store's error text).
C17_ShortIVIs500WithErrorLine ==
    \A r \in Reqs :
        IVFetchFailed(r) =>
            /\ Ended(r)
            /\ resp[r].status = 500
            /\ Len(calls[r]) = 2
            /\ h[r].rd.st = "none"
            /\ ObjectBytes(r) = <<>>
            /\ resp[r].ctype = "text/plain; charset=utf-8"
            /\ resp[r].body = IF calls[r][2].ok THEN ErrorLine("failed to read iv")
                              ELSE ErrorLine("Error")

\* the IV fetch succeeded on an object of 5 stored bytes and the request
\* ended with 500
C17_Witness ==
    /\ req[1].route = "ctr"
    /\ Len(calls[1]) = 2
    /\ calls[1][2].ok /\ calls[1][2].ver = 6
    /\ resp[1].status = 500 /\ resp[1].body = ErrorLine("failed to read iv")
    /\ h[1].pc = "done"

\* C18: on the counter-mode route, when the stored object is replaced
\* between two of the handler's three store calls, a response with status
\* 200 or 206 is still version-consistent: the size behind Content-Length
\* and Content-Range (metadata fetch), the IV used to decrypt (IV fetch) and
\* the body bytes decrypted (body fetch) come from one version of the object.
C18_VersionConsistent ==
    \A r \in Reqs :
        (req[r].route = "ctr" /\ resp[r].status \in {200, 206}) =>
            /\ calls[r][1].ver = calls[r][2].ver
            /\ calls[r][2].ver = calls[r][3].ver

\* C19: on both routes every handler invocation reaches a terminal outcome
\* and writes the response status exactly once, with a value among 200, 206,
\* 304, 400, 404, 412, 416 and 500; body bytes are written only after a 200
\* or 206 status; a store fetch error always ends in 404 (object absent on
\* the metadata fetch) or 500.  (NewCTRReader, the only cipher construction
\* that returns an error value, never returns one.)
C19_OneTerminalStatus ==
    \A r \in Reqs :
        /\ h[r].pc # "panic"
        /\ resp[r].writes <= 1
        /\ h[r].pc = "done" => resp[r].writes = 1
        /\ resp[r].writes = 1 =>
               resp[r].status \in {200, 206, 304, 400, 404, 412, 416, 500}
        /\ resp[r].writes = 0 => resp[r].status = 0
        /\ resp[r].body # <<>> => resp[r].status \in {200, 206}
        /\ \A i \in 1..Len(calls[r]) :
               ~calls[r][i].ok =>
                   /\ Ended(r)
                   /\ resp[r].status \in {404, 500}
                   /\ resp[r].status = 404 =>
                          (i = 1 /\ calls[r][1].ver = 0 /\ resp[r].body = <<>>)

\* C20: the writer-side transforms leave the caller's data unchanged and
\* keep the keystream aligned with what was emitted: xorWriter.Write and
\* ctrWriter.Write do not modify the bytes of the buffer p passed to them,
\* and after any sequence of Write calls the writer's keystream position
\* equals the number of bytes the underlying writer actually accepted.
C20_WriterFrame ==
    /\ xlast.after = xlast.orig
    /\ xw.st \in {"open", "short"} => xw.offset = Len(xsink)
    /\ clast.after = clast.orig
    /\ cw.st \in {"open", "short"} => cw.pos = Len(csink) - BlockSize

\* C8: a repeating-key stream is never constructed with a zero-length key,
\* and no Read or Write is executed on a stream whose key length is 0.
C8_ZeroKeyRejected ==
    \A s \in {xw, xrA, xrB} : Len(s.key) = 0 => (s.st = "none" /\ s.calls = 0)

\* C9: repeating-key seek consistency. For a non-empty key the bytes of the
\* reader constructed at offset o over ciphertext[o..] equal those of the
\* reader constructed at 0 after its first o bytes, for every chunking, and
\* each reader's cursor is its initial offset plus the bytes it returned.
C9_XorSeekConsistency ==
    Len(xkey) > 0 =>
        /\ xrA.st = "open" => xrA.offset = xoff + Len(xrA.out)
        /\ xrB.st = "open" => xrB.offset = Len(xrB.out)
        /\ \A k \in 1..Len(xrA.out) :
               xoff + k <= Len(xrB.out) => xrA.out[k] = xrB.out[xoff + k]

\* reader A, constructed at an offset that is no multiple of the key length,
\* has returned bytes in two Read calls and reader B has passed them
C9_Witness ==
    /\ Len(xkey) = 3
    /\ xoff % 3 # 0
    /\ xrA.calls = 2
    /\ Len(xrA.out) >= 3
    /\ xrB.calls = 2
    /\ Len(xrB.out) >= xoff + Len(xrA.out)

\* C10: repeating-key self-inverse. For a non-empty key, what an xorWriter
\* wrote (every Write accepted in full), read back through an xorReader with
\* the same key at offset 0, is the plaintext, for every split of the calls.
C10_XorSelfInverse ==
    (Len(xkey) > 0 /\ xw.st # "short") =>
        /\ xrB.out = SubSeq(xplain, 1, Len(xrB.out))
        /\ (xrB.st = "open" /\ xrB.pos = Len(xsink)) => xrB.out = xplain

\* the longest plaintext, written in several Write calls and read back whole
\* in several Read calls under a 3-byte key
C10_Witness ==
    /\ Len(xkey) = 3
    /\ Len(xplain) = PlainLen
    /\ xw.calls = 2
    /\ xrB.calls = 2
    /\ xrB.out = xplain

====
